---- MODULE Spec2Model ----
(***************************************************************************)
(* A model of package xjson (src/xjson.go): the deep Get / SetF / Set      *)
(* accessors over a map[string]any tree, Store, and the Read entry point   *)
(* that folds a JSON file and a JSON directory into one tree.              *)
(***************************************************************************)
EXTENDS Naturals, Sequences, FiniteSets, TLC

VARIABLES
    pc,       \* position of the modelled caller
    db,       \* the tree (map[string]any) the operations work on
    db0,      \* the tree before the mutating call, before the directory walk
    call,     \* the last mutating call and its arguments
    res,      \* what that call returned
    got,      \* the last Get call, with what it returned
    fs,       \* the file system Read looks at
    rpath,    \* the argument of Read
    todo,     \* filepath.Walk: the paths still to be visited, in order
    visited,  \* the files handed to ReadAndStoreFile so far, in order
    err0,     \* DoReadAndStore: the error of the entry file
    err1,     \* DoReadAndStore: the error of the directory walk
    rerr      \* what DoReadAndStore returned

vars == <<pc, db, db0, call, res, got, fs, rpath, todo, visited, err0, err1, rerr>>

(***************************************************************************)
(* Bounds of the model.                                                    *)
(***************************************************************************)
\* the longest key path handed to Get and SetF
MaxPathLen == 2

(***************************************************************************)
(* Values.  A Go `any` is a record: t is its dynamic type, v its payload.  *)
(* A map[string]any payload is a function from its keys to values.         *)
(***************************************************************************)
EmptyMap == [k \in {} |-> TRUE]

NilV == [t |-> "nil", v |-> "nil"]
StrV(s) == [t |-> "string", v |-> s]
MapV(m) == [t |-> "map", v |-> m]
\* a []string and a []any: two different dynamic types
StrsV(s) == [t |-> "[]string", v |-> s]
AnysV(s) == [t |-> "[]any", v |-> s]

\* the map holding the single entry k: x
One(k, x) == [j \in {k} |-> x]
\* the map holding k1: x1 and k2: x2
Two(k1, x1, k2, x2) == [j \in {k1, k2} |-> IF j = k1 THEN x1 ELSE x2]

\* p[x] = v on a map
Put(p, x, v) == [k \in (DOMAIN p) \cup {x} |-> IF k = x THEN v ELSE p[k]]

MergeIntoNewLoses(q, w) ==
    [k \in (DOMAIN q) \cup (DOMAIN w) |-> IF k \in DOMAIN q THEN q[k] ELSE w[k]]

\* for k, x := range w { q[k] = x }
MergeInto(q, w) ==
    [k \in (DOMAIN q) \cup (DOMAIN w) |-> IF k \in DOMAIN w THEN w[k] ELSE q[k]]

\* the bug of converting without looking at the dynamic type
TypeAssertUnchecked(q, T) == TRUE

\* q.(T): T is a type parameter, "any" is the empty interface, which every
\* value but the nil interface satisfies
TypeAssert(q, T) ==
    IF T = "any" THEN q.t # "nil" ELSE q.t = T

\* *new(T)
Zero(T) ==
    CASE T = "string" -> StrV("")
      [] T = "map" -> MapV(EmptyMap)
      [] T = "[]string" -> StrsV(<<>>)
      [] T = "[]any" -> AnysV(<<>>)
      [] OTHER -> NilV

ErrNil == [err |-> "nil", msg |-> ""]
ErrBadPath(msg) == [err |-> "ErrBadPath", msg |-> msg]
ErrBadType(msg) == [err |-> "ErrBadType", msg |-> msg]

RECURSIVE Join(_, _)
\* strings.Join(xs, sep)
Join(xs, sep) ==
    IF Len(xs) = 0 THEN ""
    ELSE IF Len(xs) = 1 THEN xs[1]
    ELSE xs[1] \o sep \o Join(Tail(xs), sep)

PathString(xs) == Join(xs, ".")

(***************************************************************************)
(* Get                                                                     *)
(***************************************************************************)
\* the bug of naming the whole path
BadPathWhole(T, xs, n) == [val |-> Zero(T), e |-> ErrBadPath(PathString(xs))]

\* what Get returns when xs[:n] cannot be walked
BadPathAt(T, xs, n) ==
    [val |-> Zero(T), e |-> ErrBadPath(PathString(SubSeq(xs, 1, n)))]

RECURSIVE GetFrom(_, _, _, _)
\* the loop of Get from its n-th iteration (n counts from 1), p the current map
GetFrom(T, p, xs, n) ==
    IF n > Len(xs)
    THEN [val |-> Zero(T), e |-> ErrBadPath(PathString(xs))]
    ELSE LET x == xs[n] IN
         IF x \notin DOMAIN p
         THEN BadPathAt(T, xs, n)
         ELSE LET q == p[x] IN
              IF n = Len(xs)
              THEN IF ~TypeAssert(q, T)
                   THEN [val |-> Zero(T),
                         e |-> ErrBadType("'" \o PathString(SubSeq(xs, 1, n))
                                   \o "'; got '" \o q.t \o "', expected '" \o T \o "'")]
                   ELSE [val |-> q, e |-> ErrNil]
              ELSE IF q.t # "map"
                   THEN BadPathAt(T, xs, n)
                   ELSE GetFrom(T, q.v, xs, n + 1)

Get(T, d, xs) == GetFrom(T, d, xs, 1)

(***************************************************************************)
(* SetF, Set                                                               *)
(***************************************************************************)
MergeMaps == 1
AppendArrays == 2
ForceThrough == 4

\* flags & f == f
HasFlag(flags, f) == (flags \div f) % 2 = 1

\* v.([]T)
IsSliceOf(v, T) == v.t = "[]" \o T

\* the bug of keeping the old entry on a colliding key
SetLeafOldWins(T, p, x, v, flags) ==
    IF HasFlag(flags, MergeMaps) /\ v.t = "map"
       /\ x \in DOMAIN p /\ p[x].t = "map"
    THEN Put(p, x, MapV(MergeIntoNewLoses(p[x].v, v.v)))
    ELSE IF HasFlag(flags, AppendArrays) /\ IsSliceOf(v, T)
            /\ x \in DOMAIN p /\ IsSliceOf(p[x], T)
    THEN Put(p, x, [t |-> v.t, v |-> p[x].v \o v.v])
    ELSE Put(p, x, v)

\* the last iteration of SetF's loop: the map p after it
SetLeaf(T, p, x, v, flags) ==
    IF HasFlag(flags, MergeMaps) /\ v.t = "map"
       /\ x \in DOMAIN p /\ p[x].t = "map"
    THEN Put(p, x, MapV(MergeInto(p[x].v, v.v)))
    ELSE IF HasFlag(flags, AppendArrays) /\ IsSliceOf(v, T)
            /\ x \in DOMAIN p /\ IsSliceOf(p[x], T)
    THEN Put(p, x, [t |-> v.t, v |-> p[x].v \o v.v])
    ELSE Put(p, x, v)

\* the bug of replacing the entry before looking at the flag
BlockedClobbers(p, x, xs, n, flags) ==
    [m |-> Put(p, x, MapV(EmptyMap)),
     e |-> ErrBadPath(PathString(SubSeq(xs, 1, n))), stop |-> TRUE]

\* a non-final iteration that finds p[x] present and not a map: the map p
\* after it, the error, and whether SetF returns there
Blocked(p, x, xs, n, flags) ==
    IF ~HasFlag(flags, ForceThrough)
    THEN [m |-> p, e |-> ErrBadPath(PathString(SubSeq(xs, 1, n))), stop |-> TRUE]
    ELSE [m |-> Put(p, x, MapV(EmptyMap)), e |-> ErrNil, stop |-> FALSE]

RECURSIVE SetFrom(_, _, _, _, _, _)
\* the loop of SetF from its n-th iteration on the current map p: p as the
\* loop leaves it (the maps are updated in place) and the error returned
SetFrom(T, p, xs, n, v, flags) ==
    IF n > Len(xs) THEN [m |-> p, e |-> ErrNil]
    ELSE LET x == xs[n] IN
         IF n = Len(xs) THEN [m |-> SetLeaf(T, p, x, v, flags), e |-> ErrNil]
         ELSE IF x \notin DOMAIN p
         THEN LET r == SetFrom(T, EmptyMap, xs, n + 1, v, flags)
              IN  [m |-> Put(p, x, MapV(r.m)), e |-> r.e]
         ELSE IF p[x].t # "map"
         THEN LET b == Blocked(p, x, xs, n, flags) IN
              IF b.stop THEN [m |-> b.m, e |-> b.e]
              ELSE LET r == SetFrom(T, b.m[x].v, xs, n + 1, v, flags)
                   IN  [m |-> Put(b.m, x, MapV(r.m)), e |-> r.e]
         ELSE LET r == SetFrom(T, p[x].v, xs, n + 1, v, flags)
              IN  [m |-> Put(p, x, MapV(r.m)), e |-> r.e]

SetF(T, d, xs, v, flags) == SetFrom(T, d, xs, 1, v, flags)

\* the bug of replacing where Set is meant to merge
SetNoMerge(d, xs, v) == SetF("any", d, xs, v, 0)

\* the bug of keeping what the tree already holds at a key
SetIfAbsent(d, xs, v) ==
    IF Get("any", d, xs).e = ErrNil THEN [m |-> d, e |-> ErrNil]
    ELSE SetF("any", d, xs, v, MergeMaps)

\* Good defaults
Set(d, xs, v) == SetF("any", d, xs, v, MergeMaps)

(***************************************************************************)
(* File names.  A path string is the sequence of its elements (what        *)
(* strings.Split(path, "/") gives), and an element is the sequence of its  *)
(* dot-separated tokens: "path/to/db.json" is                              *)
(* <<<<"path">>, <<"to">>, <<"db", "json">>>>, "." is <<<<"", "">>>>, ""   *)
(* is <<<<"">>>>.  Two path strings are equal exactly when these are.      *)
(* Only relative paths are modelled.                                       *)
(***************************************************************************)
NoElem == <<"">>
Dot == <<"", "">>
DotDot == <<"", "", "">>

\* the string of one element
ElemString(e) == Join(e, ".")

\* splitPath: the elements of a path, as strings
splitPath(path) == [i \in 1..Len(path) |-> ElemString(path[i])]

Front(s) == SubSeq(s, 1, Len(s) - 1)
Last(s) == s[Len(s)]

\* path with its last element replaced by e
WithLast(path, e) == Front(path) \o <<e>>

\* filepath.Ext(fn) is not "": the last element holds a dot
HasExt(fn) == Len(Last(fn)) > 1

\* filepath.Ext(fn) without its leading dot
ExtToken(fn) == Last(Last(fn))

\* strings.TrimSuffix(path, filepath.Ext(fn))
TrimSuffixExt(path, fn) ==
    IF HasExt(fn) /\ Len(Last(path)) > 1 /\ Last(Last(path)) = ExtToken(fn)
    THEN WithLast(path, Front(Last(path)))
    ELSE path

TrimExt(fn) == TrimSuffixExt(fn, fn)

RECURSIVE CleanOnto(_, _)
\* filepath.Clean, element by element: acc is the cleaned part so far
CleanOnto(acc, rest) ==
    IF Len(rest) = 0 THEN acc
    ELSE LET e == Head(rest) IN
         IF e = NoElem \/ e = Dot THEN CleanOnto(acc, Tail(rest))
         ELSE IF e = DotDot /\ Len(acc) > 0 /\ Last(acc) # DotDot
         THEN CleanOnto(Front(acc), Tail(rest))
         ELSE CleanOnto(Append(acc, e), Tail(rest))

\* filepath.Clean of a relative path
Clean(path) ==
    LET c == CleanOnto(<<>>, path) IN IF Len(c) = 0 THEN <<Dot>> ELSE c

isRootUncleaned(ind, fn) == ind = TrimExt(fn)

isRoot(ind, fn) == Clean(ind) = Clean(TrimExt(fn))

RECURSIVE CommonLen(_, _)
\* the number of leading elements two paths share
CommonLen(b, t) ==
    IF Len(b) = 0 \/ Len(t) = 0 \/ Head(b) # Head(t) THEN 0
    ELSE 1 + CommonLen(Tail(b), Tail(t))

\* filepath.Rel(ind, fn): the relative path, or ok = FALSE when fn cannot be
\* made relative to ind
Rel(ind, fn) ==
    LET base0 == Clean(ind)
        targ == Clean(fn)
        base == IF base0 = <<Dot>> THEN <<>> ELSE base0
        c == CommonLen(base, targ)
    IN  IF targ = base0 THEN [ok |-> TRUE, rel |-> <<Dot>>]
        ELSE IF c < Len(base) /\ base[c + 1] = DotDot
        THEN [ok |-> FALSE, rel |-> <<>>]
        ELSE [ok |-> TRUE,
              rel |-> [i \in 1..(Len(base) - c) |-> DotDot]
                      \o SubSeq(targ, c + 1, Len(targ))]

(***************************************************************************)
(* Store                                                                   *)
(***************************************************************************)
ErrRel == [err |-> "Rel: can't make relative", msg |-> ""]
ErrRootNotHash == [err |-> "root isn't a hash", msg |-> ""]

\* the key path Store hands to Set for a file that is not the root
StoreKeys(rel, fn) == splitPath(TrimSuffixExt(rel, fn))

\* the bug of letting any root value through
StoreRootUnchecked(d, y) ==
    IF y.t = "map" THEN [m |-> MergeInto(d, y.v), e |-> ErrNil]
    ELSE [m |-> EmptyMap, e |-> ErrNil]

\* the special case of Store: y is the content of the root file
StoreRoot(d, y) ==
    IF y.t # "map" THEN [m |-> d, e |-> ErrRootNotHash]
    ELSE [m |-> MergeInto(d, y.v), e |-> ErrNil]

\* Store(ind, fn, y, db): db as Store leaves it, and the error
Store(ind, fn, y, d) ==
    LET r == Rel(ind, fn) IN
    IF ~r.ok THEN [m |-> d, e |-> ErrRel]
    ELSE IF isRoot(ind, fn) THEN StoreRoot(d, y)
    ELSE Set(d, StoreKeys(r.rel, fn), y)

(***************************************************************************)
(* The callers of the tree operations: one mutating call on a tree, and    *)
(* Get calls.  The inputs are drawn from the sets below.                   *)
(***************************************************************************)
Keys == {"a", "b"}

\* the key paths handed to Get and SetF
Paths == UNION {[1..n -> Keys] : n \in 0..MaxPathLen}

\* the values handed to SetF, Set and Store
Values ==
    { StrV("bar"), NilV,
      MapV(EmptyMap), MapV(One("a", StrV("x"))), MapV(One("b", StrV("y"))),
      StrsV(<<"w">>), AnysV(<<StrV("w")>>) }

\* the trees the calls start from
InitTrees ==
    { EmptyMap,
      One("a", StrV("bar")),
      One("a", NilV),
      One("a", MapV(One("b", StrV("bar")))),
      Two("a", MapV(Two("a", StrV("bar"), "b", StrV("baz"))), "b", StrV("bar")),
      Two("a", StrsV(<<"h">>), "b", MapV(One("a", StrsV(<<"h">>)))),
      One("a", AnysV(<<StrV("h")>>)),
      One("a", MapV(One("b", MapV(One("a", StrV("bar")))))),
      One("a", MapV(Two("a", AnysV(<<StrV("h")>>), "b", NilV))),
      Two("a", StrV("bar"), "b", MapV(One("b", MapV(One("b", StrV("baz")))))) }

\* the type parameters SetF and Get are instantiated with
SetTypes == {"any", "string"}
GetTypes == {"any", "string", "map", "[]string"}

AllFlags == 0..(MergeMaps + AppendArrays + ForceThrough)

\* (ind, fn) pairs handed to Store
StoreFiles ==
    { <<<<Dot>>, <<<<"a", "json">>>>>>,                               \* ".", "a.json"
      <<<<<<"db">>, NoElem>>, <<<<"db">>, <<"a", "json">>>>>>,        \* "db/", "db/a.json"
      <<<<<<"db">>>>, <<<<"db">>, <<"a">>, <<"b", "json">>>>>>,       \* "db", "db/a/b.json"
      <<<<Dot, <<"db">>>>, <<<<"db">>, <<"a", "b", "json">>>>>>,      \* "./db", "db/a.b.json"
      <<<<<<"db">>, <<"a">>>>, <<<<"db">>, <<"b", "json">>>>>>,       \* "db/a", "db/b.json"
      <<<<<<"db">>, <<"a">>>>, <<<<"db">>, <<"a">>, <<"b">>>>>>,      \* "db/a", "db/a/b"
      <<<<<<"db">>, NoElem>>, <<<<"db", "json">>>>>>,                 \* "db/", "db.json"
      <<<<<<"db">>>>, <<<<"db">>, <<"", "json">>>>>>,                 \* "db", "db/.json"
      <<<<<<"to">>, <<"db">>>>, <<<<"to">>, <<"db", "txt">>>>>>,      \* "to/db", "to/db.txt"
      <<<<DotDot, <<"db">>>>, <<<<"a", "json">>>>>> }                 \* "../db", "a.json"

NoCall == [op |-> "none"]
NoGet == [T |-> "none"]
NoFS == [file |-> "none"]

Idle ==
    /\ fs = NoFS /\ rpath = <<>> /\ todo = <<>> /\ visited = <<>>
    /\ err0 = ErrNil /\ err1 = ErrNil /\ rerr = ErrNil

Init ==
    /\ pc = "ready"
    /\ db0 \in InitTrees
    /\ db = db0
    /\ call = NoCall
    /\ res = ErrNil
    /\ got = NoGet
    /\ Idle

readVars == <<fs, rpath, todo, visited, err0, err1, rerr>>

CallSetF ==
    /\ pc = "ready" /\ got = NoGet
    /\ \E T \in SetTypes, xs \in Paths, v \in Values, flags \in AllFlags :
         LET r == SetF(T, db, xs, v, flags) IN
         /\ db' = r.m
         /\ res' = r.e
         /\ call' = [op |-> "SetF", T |-> T, xs |-> xs, v |-> v, flags |-> flags]
    /\ pc' = "done"
    /\ UNCHANGED <<db0, got, readVars>>

CallSet ==
    /\ pc = "ready" /\ got = NoGet
    /\ \E xs \in Paths, v \in Values :
         LET r == Set(db, xs, v) IN
         /\ db' = r.m
         /\ res' = r.e
         /\ call' = [op |-> "Set", T |-> "any", xs |-> xs, v |-> v, flags |-> MergeMaps]
    /\ pc' = "done"
    /\ UNCHANGED <<db0, got, readVars>>

CallStore ==
    /\ pc = "ready" /\ got = NoGet
    /\ \E f \in StoreFiles, y \in Values :
         LET r == Store(f[1], f[2], y, db) IN
         /\ db' = r.m
         /\ res' = r.e
         /\ call' = [op |-> "Store", ind |-> f[1], fn |-> f[2], v |-> y]
    /\ pc' = "done"
    /\ UNCHANGED <<db0, got, readVars>>

\* Get on the tree as given, at any path; after a SetF or Set, at the path
\* that call wrote
CallGet ==
    /\ got = NoGet
    /\ \/ pc = "ready"
       \/ pc = "done" /\ call.op \in {"SetF", "Set"}
    /\ \E T \in GetTypes, xs \in Paths :
         /\ pc = "done" => xs = call.xs
         /\ got' = [T |-> T, xs |-> xs, r |-> Get(T, db, xs)]
    /\ UNCHANGED <<pc, db, db0, call, res, readVars>>

Next == CallSetF \/ CallSet \/ CallStore \/ CallGet

Spec == Init /\ [][Next]_vars

(***************************************************************************)
(* The file system.  fs maps each path that exists (cleaned) to its node:  *)
(* a directory, or a file with what reading and decoding it gives.         *)
(***************************************************************************)
DirNode == [kind |-> "dir", c |-> "dir", y |-> NilV]
\* a file holding the JSON text of y
FJson(y) == [kind |-> "file", c |-> "json", y |-> y]
\* a file that cannot be ingested: "syntax" (malformed JSON), "perm" (not
\* readable), "gone" (a dangling symbolic link: listed, but not there to read)
FBad(c) == [kind |-> "file", c |-> c, y |-> NilV]

\* no file: the path is not there
FNone == [kind |-> "none", c |-> "none", y |-> NilV]
\* a directory that holds nothing
FEmptyDir == [kind |-> "dir", c |-> "empty", y |-> NilV]

Exists(f, path) == Clean(path) \in DOMAIN f
NodeOf(f, path) == f[Clean(path)]

ErrNotExist(op) == [err |-> "ErrNotExist", msg |-> op]
ErrOther(what) == [err |-> what, msg |-> ""]

\* errors.Is(e, os.ErrNotExist)
IsNotExist(e) == e.err = "ErrNotExist"

\* ReadFile(fn): the decoded value and the error
ReadFile(f, fn) ==
    IF ~Exists(f, fn) THEN [val |-> NilV, e |-> ErrNotExist("reading")]
    ELSE LET node == NodeOf(f, fn) IN
         IF node.kind = "dir" THEN [val |-> NilV, e |-> ErrOther("is a directory")]
         ELSE IF node.c = "gone" THEN [val |-> NilV, e |-> ErrNotExist("reading")]
         ELSE IF node.c = "perm" THEN [val |-> NilV, e |-> ErrOther("permission denied")]
         ELSE IF node.c = "syntax" THEN [val |-> NilV, e |-> ErrOther("json.SyntaxError")]
         ELSE [val |-> node.y, e |-> ErrNil]

\* ReadAndStoreFile(ind, fn, db): db as it leaves it, and the error
ReadAndStoreFile(f, ind, fn, d) ==
    LET r == ReadFile(f, fn) IN
    IF r.e # ErrNil THEN [m |-> d, e |-> r.e] ELSE Store(ind, fn, r.val, d)

\* Ext
ExtJson == "json"

\* GetPaths(path)
GetPaths(path) ==
    IF Len(Last(path)) > 1 /\ Last(Last(path)) = ExtJson
    THEN [dn |-> WithLast(path, Front(Last(path))), fn |-> path]
    ELSE [dn |-> path, fn |-> WithLast(path, Append(Last(path), ExtJson))]

\* the byte order of the tokens the file names of the model are made of
TokRank(t) ==
    CASE t = "" -> 0 [] t = "a" -> 1 [] t = "b" -> 2 [] t = "db" -> 3
      [] t = "json" -> 4 [] OTHER -> 5

RECURSIVE NameLess(_, _)
\* the order of sort.Strings on two file names: a name made of letters and
\* dots compares as the sequence of its tokens does
NameLess(e1, e2) ==
    IF Len(e1) = 0 THEN Len(e2) > 0
    ELSE IF Len(e2) = 0 THEN FALSE
    ELSE IF Head(e1) # Head(e2) THEN TokRank(Head(e1)) < TokRank(Head(e2))
    ELSE NameLess(Tail(e1), Tail(e2))

RECURSIVE SortNames(_)
\* the names of S, sorted
SortNames(S) ==
    IF S = {} THEN <<>>
    ELSE LET m == CHOOSE x \in S : \A y \in S \ {x} : NameLess(x, y)
         IN  <<m>> \o SortNames(S \ {m})

\* readDirNames(dir): the names in directory dir, in the order Walk visits them
ReadDirNames(f, dir) ==
    SortNames({Last(q) : q \in {q \in DOMAIN f : Len(q) = Len(Clean(dir)) + 1
                                        /\ Front(q) = Clean(dir)}})

\* filepath.Join(dir, name)
JoinPath(dir, name) == Clean(Append(dir, name))

\* the bug of going on after a failed file
WalkRestGoesOn(rest, e) == rest

\* what is left of the walk after a callback returned e
WalkRest(rest, e) == IF e # ErrNil THEN <<>> ELSE rest

\* errors.Join(e0, e1)
ErrJoin(e0, e1) == [err |-> "errors.Join", msg |-> e0.err \o "\n" \o e1.err]

\* the bug of not tolerating a missing file
ReturnOfStrict(e0, e1) ==
    IF e0 # ErrNil THEN e0 ELSE e1

\* DoReadAndStore: what it returns once both reads are done
ReturnOf(e0, e1) ==
    IF e1 # ErrNil /\ ~IsNotExist(e1) THEN e1
    ELSE IF e0 # ErrNil /\ e1 # ErrNil THEN ErrJoin(e0, e1)
    ELSE ErrNil

(***************************************************************************)
(* Read.  One action per step of DoReadAndStore: the entry file, each      *)
(* call of the walk's callback, the return.                                *)
(***************************************************************************)
DbJson == <<<<"db", "json">>>>
DbDir == <<<<"db">>>>
AJson == <<<<"db">>, <<"a", "json">>>>
BJson == <<<<"db">>, <<"b", "json">>>>
ADir == <<<<"db">>, <<"a">>>>
ABJson == <<<<"db">>, <<"a">>, <<"b", "json">>>>

\* what "db.json" may be
EntryFiles ==
    { FNone, FJson(StrV("s")), FJson(MapV(One("a", StrV("r")))),
      FJson(MapV(One("a", MapV(One("b", StrV("r")))))),
      FJson(MapV(Two("a", MapV(Two("a", StrV("r"), "b", StrV("r"))), "b", StrV("r")))),
      FBad("syntax") }
\* what "db/a.json" may be
AFiles ==
    { FNone, FJson(StrV("s")), FJson(MapV(One("b", StrV("x")))),
      FJson(MapV(One("a", StrV("x")))), FBad("perm") }
\* what "db/b.json" may be
BFiles == { FNone, FJson(StrV("t")), FBad("syntax") }
\* what "db/a/" may be: not there, an empty directory, or a directory
\* holding this "b.json"
ASubs ==
    { FNone, FEmptyDir, FJson(StrV("y")), FJson(MapV(One("a", StrV("y")))),
      FBad("gone") }

\* the paths Read is called with: "db", "db.json", "db/"
ReadPaths == { DbDir, DbJson, <<<<"db">>, NoElem>> }

FsOf(ef, dir, fa, fb, sub) ==
    LET nodes ==
            (IF ef = FNone THEN {} ELSE {<<DbJson, ef>>})
            \cup (IF ~dir THEN {}
                  ELSE {<<DbDir, DirNode>>}
                       \cup (IF fa = FNone THEN {} ELSE {<<AJson, fa>>})
                       \cup (IF fb = FNone THEN {} ELSE {<<BJson, fb>>})
                       \cup (IF sub = FNone THEN {} ELSE {<<ADir, DirNode>>})
                       \cup (IF sub \in {FNone, FEmptyDir} THEN {} ELSE {<<ABJson, sub>>}))
    IN  [q \in {n[1] : n \in nodes} |-> (CHOOSE n \in nodes : n[1] = q)[2]]

FileSystems ==
    {FsOf(ef, FALSE, FNone, FNone, FNone) : ef \in EntryFiles}
    \cup {FsOf(x[1], TRUE, x[2], x[3], x[4]) :
            x \in EntryFiles \X AFiles \X BFiles \X ASubs}

\* Read(path): a fresh tree
ReadInit ==
    /\ pc = "read"
    /\ fs \in FileSystems
    /\ rpath \in ReadPaths
    /\ db = EmptyMap /\ db0 = EmptyMap
    /\ todo = <<>> /\ visited = <<>>
    /\ err0 = ErrNil /\ err1 = ErrNil /\ rerr = ErrNil
    /\ call = NoCall /\ res = ErrNil /\ got = NoGet

apiVars == <<call, res, got>>

\* DoReadAndStore up to the call of ReadAndStoreDir
ReadEntryFile ==
    /\ pc = "read"
    /\ LET g == GetPaths(rpath)
           r == ReadAndStoreFile(fs, g.dn, g.fn, db)
       IN  /\ db' = r.m
           /\ db0' = r.m
           /\ err0' = r.e
           /\ IF r.e # ErrNil /\ ~IsNotExist(r.e)
              THEN /\ rerr' = r.e
                   /\ pc' = "returned"
                   /\ todo' = <<>>
              ELSE /\ rerr' = rerr
                   /\ pc' = "walk"
                   /\ todo' = <<g.dn>>
    /\ UNCHANGED <<fs, rpath, visited, err1, apiVars>>

\* filepath.Walk reaches the next path: Lstat, then the callback
WalkVisit ==
    /\ pc = "walk" /\ todo # <<>>
    /\ LET ind == GetPaths(rpath).dn
           q == Head(todo)
       IN  /\ visited' = Append(visited, q)
           /\ IF ~Exists(fs, q)
              THEN \* the root is not there: the callback returns Lstat's error
                   /\ err1' = ErrNotExist("lstat")
                   /\ todo' = WalkRest(Tail(todo), err1')
                   /\ db' = db
              ELSE IF NodeOf(fs, q).kind = "dir"
              THEN /\ err1' = err1
                   /\ todo' = [i \in 1..Len(ReadDirNames(fs, q)) |->
                                   JoinPath(q, ReadDirNames(fs, q)[i])] \o Tail(todo)
                   /\ db' = db
              ELSE LET r == ReadAndStoreFile(fs, ind, q, db) IN
                   /\ db' = r.m
                   /\ err1' = r.e
                   /\ todo' = WalkRest(Tail(todo), r.e)
    /\ UNCHANGED <<pc, db0, fs, rpath, err0, rerr, apiVars>>

\* ReadAndStoreDir has returned: DoReadAndStore returns
ReadReturn ==
    /\ pc = "walk" /\ todo = <<>>
    /\ rerr' = ReturnOf(err0, err1)
    /\ pc' = "returned"
    /\ UNCHANGED <<db, db0, fs, rpath, todo, visited, err0, err1, apiVars>>

ReadNext == ReadEntryFile \/ WalkVisit \/ ReadReturn

ReadSpec == ReadInit /\ [][ReadNext]_vars

(***************************************************************************)
(* Two files of one directory that stand for the same key path, handed to  *)
(* ReadAndStoreFile in either order.                                       *)
(***************************************************************************)
ATxt == <<<<"db">>, <<"a", "txt">>>>

\* the Maps the two files may hold
MapValues ==
    { MapV(EmptyMap), MapV(One("a", StrV("x"))), MapV(One("a", StrV("y"))),
      MapV(One("b", StrV("y"))), MapV(Two("a", StrV("x"), "b", StrV("z"))) }

StoreInit ==
    /\ pc = "store"
    /\ \E y1 \in MapValues, y2 \in MapValues :
         fs = [q \in {DbDir, AJson, ATxt} |->
                 IF q = DbDir THEN DirNode
                 ELSE IF q = AJson THEN FJson(y1) ELSE FJson(y2)]
    /\ rpath = DbDir
    /\ db0 \in InitTrees
    /\ db = db0
    /\ todo = <<>> /\ visited = <<>>
    /\ err0 = ErrNil /\ err1 = ErrNil /\ rerr = ErrNil
    /\ call = NoCall /\ res = ErrNil /\ got = NoGet

\* the callback of ReadAndStoreDir on a file not stored yet
StoreFile ==
    /\ pc = "store"
    /\ \E q \in {AJson, ATxt} :
         /\ \A i \in 1..Len(visited) : visited[i] # q
         /\ LET r == ReadAndStoreFile(fs, GetPaths(rpath).dn, q, db) IN
            /\ db' = r.m
            /\ err1' = r.e
         /\ visited' = Append(visited, q)
    /\ UNCHANGED <<pc, db0, fs, rpath, todo, err0, rerr, apiVars>>

StoreNext == StoreFile

StoreSpec == StoreInit /\ [][StoreNext]_vars

(***************************************************************************)
(* What the claims speak of, stated on the trees themselves.               *)
(***************************************************************************)
Absent == [t |-> "absent", v |-> "absent"]

RECURSIVE ValAt(_, _, _)
\* the value the first n segments of xs lead to in tree d, Absent when a
\* key is missing or a segment on the way is not a Map
ValAt(d, xs, n) ==
    IF n = 0 THEN MapV(d)
    ELSE LET par == ValAt(d, xs, n - 1) IN
         IF par.t = "map" /\ xs[n] \in DOMAIN par.v THEN par.v[xs[n]] ELSE Absent

\* the Map the first n segments of xs lead to, empty when there is none
MapAt(d, xs, n) ==
    LET w == ValAt(d, xs, n) IN IF w.t = "map" THEN w.v ELSE EmptyMap

\* v's dynamic type is T (every non-nil value has the type any)
Matches(v, T) == v.t = T \/ (T = "any" /\ v.t # "nil")

RECURSIVE Nested(_, _)
\* {xs[1]: {xs[2]: ... v}}
Nested(xs, v) ==
    IF Len(xs) = 1 THEN One(xs[1], v) ELSE One(xs[1], MapV(Nested(Tail(xs), v)))

\* the keys beside the path xs hold in d what they hold in d0
OffPathSame(d0, d, xs) ==
    \A i \in 1..Len(xs) :
        LET m0 == MapAt(d0, xs, i - 1)
            m == MapAt(d, xs, i - 1)
        IN  /\ (DOMAIN m) \ {xs[i]} = (DOMAIN m0) \ {xs[i]}
            /\ \A k \in (DOMAIN m0) \ {xs[i]} : m[k] = m0[k]

\* C3: after SetF or Set of v at a non-empty path of an empty tree, the tree
\* is the nested Maps leading to v, and Get[T] at that path returns v when
\* v's dynamic type is T and fails with ErrBadType otherwise
C3_SetGetRoundTrip ==
    (/\ pc = "done" /\ call.op \in {"SetF", "Set"}
     /\ db0 = EmptyMap /\ Len(call.xs) > 0)
    => /\ res = ErrNil
       /\ db = Nested(call.xs, call.v)
       /\ got # NoGet =>
            /\ got.xs = call.xs
            /\ IF Matches(call.v, got.T)
               THEN got.r = [val |-> call.v, e |-> ErrNil]
               ELSE got.r.e.err = "ErrBadType"

\* a string set two segments deep and read back as a string
C3_Witness ==
    /\ pc = "done" /\ call.op = "SetF" /\ db0 = EmptyMap
    /\ Len(call.xs) = 2 /\ got # NoGet
    /\ got.T = "string" /\ got.r = [val |-> StrV("bar"), e |-> ErrNil]

\* the first index of xs Get cannot walk in d: the key is absent, or the
\* index is not the last and the value is not a Map; 0 when there is none
GetBadIdx(d, xs) ==
    LET bad == {n \in 1..Len(xs) :
                    \/ ValAt(d, xs, n) = Absent
                    \/ n < Len(xs) /\ ValAt(d, xs, n).t # "map"}
    IN  IF bad = {} THEN 0 ELSE CHOOSE n \in bad : \A j \in bad : n <= j

\* C4: Get leaves the tree alone; it fails with ErrBadPath naming xs[0..n]
\* at the first index n it cannot walk, with ErrBadPath on the empty path,
\* with ErrBadType exactly when the path resolves to a value not of type T,
\* and returns the value otherwise
C4_GetClassifies ==
    got # NoGet
    => LET xs == got.xs
           n == GetBadIdx(db, xs)
       IN  /\ pc = "ready" => db = db0
           /\ Len(xs) = 0 => got.r.e = ErrBadPath("")
           /\ n > 0 => got.r.e = ErrBadPath(Join(SubSeq(xs, 1, n), "."))
           /\ (Len(xs) > 0 /\ n = 0) =>
                IF Matches(ValAt(db, xs, Len(xs)), got.T)
                THEN got.r = [val |-> ValAt(db, xs, Len(xs)), e |-> ErrNil]
                ELSE got.r.e.err = "ErrBadType"
           /\ got.r.e.err = "ErrBadType" => (Len(xs) > 0 /\ n = 0)

\* a path whose first segment leads to a value that is not a Map
C4_Witness ==
    /\ got # NoGet /\ pc = "ready"
    /\ Len(got.xs) = 2 /\ GetBadIdx(db, got.xs) = 1
    /\ ValAt(db, got.xs, 1) # Absent
    /\ got.r.e = ErrBadPath(got.xs[1])

\* C5: at the last segment SetF merges (MergeMaps, both Maps: the new
\* entries win, the others stay), else appends (AppendArrays, both []T:
\* old then new), else overwrites; the keys beside the path are unchanged
C5_LeafOutcome ==
    (/\ pc = "done" /\ call.op \in {"SetF", "Set"}
     /\ Len(call.xs) > 0 /\ res = ErrNil)
    => LET xs == call.xs
           v == call.v
           old == ValAt(db0, xs, Len(xs))
           new == ValAt(db, xs, Len(xs))
           sl == "[]" \o call.T
       IN  /\ OffPathSame(db0, db, xs)
           /\ IF HasFlag(call.flags, MergeMaps) /\ old.t = "map" /\ v.t = "map"
              THEN /\ new.t = "map"
                   /\ DOMAIN new.v = (DOMAIN old.v) \cup (DOMAIN v.v)
                   /\ \A k \in DOMAIN v.v : new.v[k] = v.v[k]
                   /\ \A k \in (DOMAIN old.v) \ (DOMAIN v.v) : new.v[k] = old.v[k]
              ELSE IF HasFlag(call.flags, AppendArrays) /\ old.t = sl /\ v.t = sl
              THEN new = [t |-> sl, v |-> old.v \o v.v]
              ELSE new = v

\* a merge that keeps an old entry and replaces another
C5_Witness ==
    /\ pc = "done" /\ call.op = "SetF" /\ res = ErrNil
    /\ HasFlag(call.flags, MergeMaps) /\ HasFlag(call.flags, AppendArrays)
    /\ call.xs = <<"a">> /\ call.v = MapV(One("a", StrV("x")))
    /\ ValAt(db0, call.xs, 1).t = "map"
    /\ db["a"] = MapV(Two("a", StrV("x"), "b", StrV("baz")))

\* the index of the non-final segment of xs that leads, in d, to a value
\* that is there and is not a Map; 0 when there is none
BlockedIdx(d, xs) ==
    LET blk == {n \in 1..(Len(xs) - 1) :
                    ValAt(d, xs, n) # Absent /\ ValAt(d, xs, n).t # "map"}
    IN  IF blk = {} THEN 0 ELSE CHOOSE n \in blk : TRUE

\* C6: SetF fails exactly when ForceThrough is not set and a non-final
\* segment leads to a value that is not a Map; it then returns ErrBadPath
\* naming the prefix up to that segment and the tree is as it was
C6_SetFFailure ==
    (pc = "done" /\ call.op \in {"SetF", "Set"})
    => LET n == BlockedIdx(db0, call.xs)
           blocked == n > 0 /\ ~HasFlag(call.flags, ForceThrough)
       IN  /\ (res # ErrNil) <=> blocked
           /\ blocked =>
                /\ res = ErrBadPath(Join(SubSeq(call.xs, 1, n), "."))
                /\ db = db0

\* a failed SetF on a tree that holds something
C6_Witness ==
    /\ pc = "done" /\ call.op = "SetF" /\ res.err = "ErrBadPath"
    /\ BlockedIdx(db0, call.xs) > 0 /\ db = db0 /\ db0 # EmptyMap
    /\ HasFlag(call.flags, MergeMaps)

\* the key path each file of StoreFiles stands for under its base directory:
\* its relative path, element by element, without the suffix
RelKeys(f) ==
    CASE f[2] = <<<<"a", "json">>>> -> <<"a">>
      [] f[2] = <<<<"db">>, <<"a", "json">>>> -> <<"a">>
      [] f[2] = <<<<"db">>, <<"a">>, <<"b", "json">>>> -> <<"a", "b">>
      [] f[2] = <<<<"db">>, <<"a", "b", "json">>>> -> <<"a.b">>
      [] f[2] = <<<<"db">>, <<"b", "json">>>> -> <<"..", "b">>
      [] f[2] = <<<<"db">>, <<"a">>, <<"b">>>> -> <<"b">>
      [] OTHER -> <<>>

\* C9: Store of the root file (the file path without its suffix is, once
\* cleaned, the base directory) fails with "root isn't a hash" and leaves the
\* tree alone for a value that is not a Map, and puts the entries of a Map
\* at the top level of the tree, over the entries of the same name; any other
\* file (that has a path relative to the base directory) is set at the key
\* path of its relative path without the suffix
C9_StoreRoot ==
    (pc = "done" /\ call.op = "Store")
    => LET f == <<call.ind, call.fn>>
           y == call.v
           root == Clean(call.ind) = Clean(TrimExt(call.fn))
       IN  /\ (root /\ y.t # "map") => (res = ErrRootNotHash /\ db = db0)
           /\ (root /\ y.t = "map") =>
                /\ res = ErrNil
                /\ DOMAIN db = (DOMAIN db0) \cup (DOMAIN y.v)
                /\ \A k \in DOMAIN y.v : db[k] = y.v[k]
                /\ \A k \in (DOMAIN db0) \ (DOMAIN y.v) : db[k] = db0[k]
           /\ (~root /\ res # ErrRel) =>
                /\ Len(RelKeys(f)) > 0
                /\ [m |-> db, e |-> res] = Set(db0, RelKeys(f), y)

\* the root file "db.json" of "db/": one top-level entry replaced, one kept
C9_Witness ==
    /\ pc = "done" /\ call.op = "Store" /\ res = ErrNil
    /\ call.ind = <<<<"db">>, NoElem>> /\ call.fn = <<<<"db", "json">>>>
    /\ call.v = MapV(One("a", StrV("x")))
    /\ "b" \in DOMAIN db0 /\ db0["a"] # StrV("x")
    /\ db = Put(db0, "a", StrV("x"))

(***************************************************************************)
(* What the claims about Read speak of.                                    *)
(***************************************************************************)
\* the value the file at path holds, Absent when there is no such JSON file
FileVal(path) ==
    IF Exists(fs, path) /\ NodeOf(fs, path).kind = "file" /\ NodeOf(fs, path).c = "json"
    THEN NodeOf(fs, path).y
    ELSE Absent

IsFilePath(path) == Exists(fs, path) /\ NodeOf(fs, path).kind = "file"

\* the files among the paths the walk has visited, in order
VisitedFiles == SelectSeq(visited, IsFilePath)

RECURSIVE FoldStore(_, _)
\* the tree d after ReadAndStoreFile of each file of files, in order
FoldStore(d, files) ==
    IF Len(files) = 0 THEN d
    ELSE FoldStore(ReadAndStoreFile(fs, GetPaths(rpath).dn, Head(files), d).m,
                   Tail(files))

\* the walk has handed the file at path q to ReadAndStoreFile
Stored(q) == \E i \in 1..Len(VisitedFiles) : VisitedFiles[i] = q

\* path q lies under directory dir
Under(q, dir) ==
    /\ Len(q) > Len(Clean(dir))
    /\ SubSeq(q, 1, Len(Clean(dir))) = Clean(dir)

\* the file of the entry directory that stands for the top-level key k
KeyFile(k) == JoinPath(GetPaths(rpath).dn, <<k, "json">>)

\* the file of the entry directory that stands for the key path k, j
SubKeyFile(k, j) == JoinPath(JoinPath(GetPaths(rpath).dn, <<k>>), <<j, "json">>)

InSubDirOf(q, r) ==
    /\ Len(q) > Len(r)
    /\ SubSeq(q, 1, Len(r) - 1) = Front(r)

\* C2 as claimed: the files directly under a directory are stored before
\* any file of its sub-directories, and so what the directory "a/" holds
\* for a key path overrides what "a.json" holds for it
C2_BreadthFirst ==
    /\ \A i \in 1..Len(VisitedFiles) : \A j \in 1..Len(VisitedFiles) :
         i < j => ~InSubDirOf(VisitedFiles[i], VisitedFiles[j])
    /\ (pc = "returned" /\ rerr = ErrNil
        /\ FileVal(KeyFile("a")) # Absent /\ FileVal(SubKeyFile("a", "b")) # Absent
        /\ Len(VisitedFiles) > 0)
       => ValAt(db, <<"a", "b">>, 2) = FileVal(SubKeyFile("a", "b"))

\* C7: at the return of DoReadAndStore: one source missing and the other
\* ingested is a success with the tree of that source; both missing is the
\* two not-found errors joined; any other error is returned as it is, the
\* entry file's before the directory is walked at all
C7_MissingSources ==
    pc = "returned"
    => LET g == GetPaths(rpath)
           fileThere == Exists(fs, g.fn)
           dirThere == Exists(fs, g.dn)
       IN  /\ (fileThere /\ ~dirThere /\ err0 = ErrNil) =>
                (rerr = ErrNil /\ db = FileVal(g.fn).v)
           /\ (~fileThere /\ dirThere /\ err1 = ErrNil) =>
                (rerr = ErrNil /\ db = FoldStore(EmptyMap, VisitedFiles)
                 /\ \A q \in DOMAIN fs : (IsFilePath(q) /\ Under(q, g.dn)) => Stored(q))
           /\ (~fileThere /\ ~dirThere) =>
                (rerr = ErrJoin(ErrNotExist("reading"), ErrNotExist("lstat"))
                 /\ db = EmptyMap)
           /\ (err0 # ErrNil /\ ~IsNotExist(err0)) =>
                (rerr = err0 /\ visited = <<>> /\ err1 = ErrNil)
           /\ (err1 # ErrNil /\ ~IsNotExist(err1)) => rerr = err1

\* only the directory is there, and Read succeeds with what it holds
C7_Witness ==
    /\ pc = "returned" /\ rerr = ErrNil
    /\ ~Exists(fs, GetPaths(rpath).fn) /\ err0 = ErrNotExist("reading")
    /\ Len(VisitedFiles) = 3 /\ db # EmptyMap

\* the walk has failed at a file
WalkFailed ==
    /\ pc \in {"walk", "returned"}
    /\ err1 # ErrNil
    /\ Len(visited) > 0 /\ IsFilePath(visited[Len(visited)])

\* C10: once the walk has failed at a file nothing is left to visit, and
\* the tree is what storing the files visited before that one, in the order
\* of the visits, makes of the tree the walk started from
C10_NoRollback ==
    WalkFailed
    => /\ todo = <<>>
       /\ db = FoldStore(db0, Front(VisitedFiles))

\* the walk failed after it stored a file and before it reached "db/b.json"
C10_Witness ==
    /\ WalkFailed /\ pc = "returned"
    /\ db # db0
    /\ Exists(fs, BJson)
    /\ \A i \in 1..Len(visited) : visited[i] # BJson

(***************************************************************************)
(* What the claim about the order of two files speaks of.                  *)
(***************************************************************************)
\* the tree had the two files been stored the other way round
OtherOrder == FoldStore(db0, <<visited[2], visited[1]>>)

\* C8 as claimed: two Map-valued files of one directory level that stand
\* for the same key path give the same tree whichever is stored first
C8_OrderIndependent ==
    (pc = "store" /\ Len(visited) = 2) => db = OtherOrder

\* C8, amended: they give the same tree whichever is stored first when the
\* two Maps agree on the keys they share; on a key they share, the entry of
\* the file stored last is the one the tree holds
C8_OrderIndependentIfAgree ==
    (pc = "store" /\ Len(visited) = 2)
    => LET m1 == FileVal(visited[1]).v
           m2 == FileVal(visited[2]).v
           shared == (DOMAIN m1) \cap (DOMAIN m2)
       IN  /\ (\A k \in shared : m1[k] = m2[k]) => db = OtherOrder
           /\ \A k \in shared : db["a"].v[k] = m2[k]
           /\ \A k \in (DOMAIN m1) \ shared : db["a"].v[k] = m1[k]

\* two Maps with different keys, merged into a Map that was there
C8_Witness ==
    /\ pc = "store" /\ Len(visited) = 2
    /\ ValAt(db0, <<"a">>, 1) = MapV(One("b", StrV("bar")))
    /\ FileVal(AJson) = MapV(One("a", StrV("x")))
    /\ FileVal(ATxt) = MapV(One("b", StrV("y")))
    /\ db = OtherOrder

====
